---- MODULE Spec2Model ----
(***************************************************************************)
(* A model of the evolution-game simulation (src/src/main.rs): organisms   *)
(* with a 27-gene linear controller move in a walled arena, eat food, age, *)
(* reproduce with mutation and die.  The systems of the FixedUpdate        *)
(* schedule are the actions; within one fixed tick they may run in every   *)
(* order the schedule's before/after constraints permit, and the commands  *)
(* they issue (spawn, despawn) are applied when the schedule has run.      *)
(*                                                                         *)
(* Numbers.  f32 quantities (energy, speed, genes, heading components,     *)
(* random draws) are fixed-point integers in thousandths (Unit).           *)
(* Positions and sizes are integers in twelfths of a world unit (PosUnit): *)
(* one fixed step moves an organism heading * speed * TIME_STEP *          *)
(* SIMULATION_SPEED = heading * speed / 12 world units.                    *)
(***************************************************************************)
EXTENDS Integers, Sequences, FiniteSets, TLC

\* ------------------------------------------------------------ numbers

\* one unit of an f32 quantity, in thousandths
Unit == 1000
\* time units per second
TimeUnit == 300
SIMULATION_SPEED == 5
\* 1 / 60 s
TIME_STEP == TimeUnit \div 60
\* position units per world unit: 1 / (TIME_STEP * SIMULATION_SPEED) = 60 / 5
PosUnit == TimeUnit \div (TIME_STEP * SIMULATION_SPEED)

Abs(x) == IF x < 0 THEN -x ELSE x

\* f32::clamp
Clamp(x, lo, hi) == IF x < lo THEN lo ELSE IF x > hi THEN hi ELSE x

\* a / b rounded to the nearest integer, halves away from zero (b > 0)
RoundDiv(a, b) == IF a >= 0 THEN (2 * a + b) \div (2 * b) ELSE -((2 * (-a) + b) \div (2 * b))

RECURSIVE IsqrtIter(_, _, _)
IsqrtIter(n, lo, hi) ==
    IF lo >= hi THEN lo
    ELSE LET mid == (lo + hi + 1) \div 2
         IN IF mid * mid <= n THEN IsqrtIter(n, mid, hi) ELSE IsqrtIter(n, lo, mid - 1)

\* floor of the square root (f32::sqrt, Vec2::length), n < 2^30
Isqrt(n) == IF n <= 0 THEN 0 ELSE IsqrtIter(n, 0, 32767)

\* ---------------------------------------------------------- constants

TOP_BOUNDARY == 300 * PosUnit
BOTTOM_BOUNDARY == -300 * PosUnit
RIGHT_BOUNDARY == 600 * PosUnit
LEFT_BOUNDARY == -600 * PosUnit
BOUNDARY_THICKNESS == 4 * PosUnit

ORGANISM_SIZE == 15 * PosUnit
PHEROMONE_SIZE == 4 * PosUnit
FOOD_SIZE == 4 * PosUnit

ORGANISM_DEFAULT_SPEED == 8 * Unit
ORGANISM_VISION == 100 * PosUnit
FOOD_PER_TIMESTEP == 2
\* 0.5
PREGNANT_PROBABILITY == Unit \div 2
CHILDREN_PER_PREGNANCY == 10

PREGNANCY_ENERGY_MINIMUM == 2 * Unit
\* 0.2
ORGANISM_MIN_ENERGY == Unit \div 5
ORGANISM_MAX_ENERGY == 4 * Unit
ORGANISM_DEFAULT_LIFETIME == 100
PHEROMONE_DEFAULT_LIFETIME == ORGANISM_DEFAULT_LIFETIME \div 10
FERTILE_AGE == ORGANISM_DEFAULT_LIFETIME \div 4
FOOD_LIFETIME == 100
\* 0.2
MUTATION_RATE == Unit \div 5

\* number of genes of GeneInfo([f32; 27])
GENES == 27

\* ----------------------------------------------------------- GeneInfo

GeneIdx == 0 .. (GENES - 1)

\* GeneInfo::default: rand is the array of 27 uniform draws from [0, 1)
Default(rand) ==
    [i \in GeneIdx |-> IF i <= 2 THEN ((rand[i] - Unit \div 2) * 2) \div 2
                                 ELSE (rand[i] - Unit \div 2) * 2]

\* GeneInfo::planned, the hand-written seed genome
planned ==
    [i \in GeneIdx |->
        CASE i = 16 -> -(Unit \div 10)
          [] i = 18 -> -(Unit \div 10)
          [] i = 17 -> Unit
          [] i = 8  -> Unit \div 2
          [] i = 9  -> -(Unit \div 2)
          [] OTHER  -> 0]

\* a faulty variant of one gene's mutation: the clamp is forgotten
MutateGeneUnclamped(g, p, r) ==
    IF p < MUTATION_RATE THEN g + r \div 2 - Unit \div 4 ELSE g

\* one gene of GeneInfo::mutate: p is the draw compared with MUTATION_RATE,
\* r the draw that moves the gene by r / 2 - 0.25
MutateGene(g, p, r) ==
    IF p < MUTATION_RATE
    THEN Clamp(g + r \div 2 - Unit \div 4, -Unit, Unit)
    ELSE g

\* GeneInfo::mutate: draws.p and draws.r give the two draws of every gene
mutate(gene, draws) ==
    [i \in GeneIdx |-> MutateGene(gene[i], draws.p[i], draws.r[i])]

\* bias + weights . inputs of one output of GeneInfo::process
RECURSIVE Dot(_, _, _, _)
Dot(gene, first, inputs, k) ==
    IF k > 7 THEN 0
    ELSE gene[first + k] * inputs[k] + Dot(gene, first, inputs, k + 1)

\* GeneInfo::process: 8 inputs to 3 outputs, each clamped to [-1, 1]
process(gene, inputs) ==
    [j \in 0 .. 2 |->
        Clamp(gene[j] + RoundDiv(Dot(gene, 3 + 8 * j, inputs, 0), Unit), -Unit, Unit)]

\* GeneInfo::color: the three bias genes mapped from [-1, 1] to [0, 1]
color(gene) == [j \in 0 .. 2 |-> (gene[j] + Unit) \div 2]

\* ----------------------------------------------------------- geometry

Vec(x, y) == [x |-> x, y |-> y]

\* random_position: two uniform draws from [0, 1) to a point of the arena
random_position(x, y) ==
    Vec(RoundDiv((x - Unit \div 2) * 2 * RIGHT_BOUNDARY, Unit),
        RoundDiv((y - Unit \div 2) * 2 * TOP_BOUNDARY, Unit))

\* Vec2::length of a heading, in thousandths
Length(v) == Isqrt(v.x * v.x + v.y * v.y)

\* random_direction: v / v.length() for v = (x - 0.5, y - 0.5); the draw
\* x = y = 0.5 (0 / 0 in the source) is not among the draws of the model
random_direction(x, y) ==
    LET v == Vec(x - Unit \div 2, y - Unit \div 2)
    IN Vec(RoundDiv(v.x * Unit, Length(v)), RoundDiv(v.y * Unit, Length(v)))

\* f32::cos and f32::sin of an angle in [-1, 1] rad, by their power series
Cos(a) ==
    LET a2 == RoundDiv(a * a, Unit)
        a4 == RoundDiv(a2 * a2, Unit)
        a6 == RoundDiv(a4 * a2, Unit)
    IN Unit - RoundDiv(a2, 2) + RoundDiv(a4, 24) - RoundDiv(a6, 720)

Sin(a) ==
    LET a2 == RoundDiv(a * a, Unit)
        a3 == RoundDiv(a2 * a, Unit)
        a5 == RoundDiv(a3 * a2, Unit)
    IN a - RoundDiv(a3, 6) + RoundDiv(a5, 120)

\* rotate_direction: the new y is computed from the already updated x, and
\* the second division uses the length of the half-normalised vector
rotate_direction(direction, angle) ==
    LET x == Cos(angle)
        y == Sin(angle)
        dx == RoundDiv(x * direction.x + y * direction.y, Unit)
        dy == RoundDiv((-y) * dx + x * direction.y, Unit)
    IN IF Length(Vec(dx, dy)) > Unit \div 100
       THEN LET nx == RoundDiv(dx * Unit, Length(Vec(dx, dy)))
            IN Vec(nx, RoundDiv(dy * Unit, Length(Vec(nx, dy))))
       ELSE Vec(RoundDiv(Unit * Unit, Isqrt(2 * Unit * Unit)),
                RoundDiv(Unit * Unit, Isqrt(2 * Unit * Unit)))

\* bevy::sprite::collide_aabb::collide on doubled coordinates (sizes are
\* full widths): the side of b that a hits, "Inside", or "None"
collide(a_pos, a_size, b_pos, b_size) ==
    LET a_min == Vec(2 * a_pos.x - a_size.x, 2 * a_pos.y - a_size.y)
        a_max == Vec(2 * a_pos.x + a_size.x, 2 * a_pos.y + a_size.y)
        b_min == Vec(2 * b_pos.x - b_size.x, 2 * b_pos.y - b_size.y)
        b_max == Vec(2 * b_pos.x + b_size.x, 2 * b_pos.y + b_size.y)
        \* depth -1 stands for the source's infinite depth of "Inside"
        xc == IF a_min.x < b_min.x /\ a_max.x > b_min.x /\ a_max.x < b_max.x
              THEN [side |-> "Left", depth |-> Abs(b_min.x - a_max.x)]
              ELSE IF a_min.x > b_min.x /\ a_min.x < b_max.x /\ a_max.x > b_max.x
              THEN [side |-> "Right", depth |-> Abs(a_min.x - b_max.x)]
              ELSE [side |-> "Inside", depth |-> -1]
        yc == IF a_min.y < b_min.y /\ a_max.y > b_min.y /\ a_max.y < b_max.y
              THEN [side |-> "Bottom", depth |-> Abs(b_min.y - a_max.y)]
              ELSE IF a_min.y > b_min.y /\ a_min.y < b_max.y /\ a_max.y > b_max.y
              THEN [side |-> "Top", depth |-> Abs(a_min.y - b_max.y)]
              ELSE [side |-> "Inside", depth |-> -1]
        y_less == yc.depth >= 0 /\ (xc.depth < 0 \/ yc.depth < xc.depth)
    IN IF a_min.x < b_max.x /\ a_max.x > b_min.x /\ a_min.y < b_max.y /\ a_max.y > b_min.y
       THEN IF y_less THEN yc.side ELSE xc.side
       ELSE "None"

BoundaryLocation == <<"Left", "Right", "Bottom", "Top">>

\* BoundaryLocation::position
position(location) ==
    CASE location = "Left"   -> Vec(LEFT_BOUNDARY, 0)
      [] location = "Right"  -> Vec(RIGHT_BOUNDARY, 0)
      [] location = "Bottom" -> Vec(0, BOTTOM_BOUNDARY)
      [] location = "Top"    -> Vec(0, TOP_BOUNDARY)

\* BoundaryLocation::size
size(location) ==
    LET arena_height == TOP_BOUNDARY - BOTTOM_BOUNDARY
        arena_width == RIGHT_BOUNDARY - LEFT_BOUNDARY
    IN IF location \in {"Left", "Right"}
       THEN Vec(BOUNDARY_THICKNESS, arena_height + BOUNDARY_THICKNESS)
       ELSE Vec(arena_width + BOUNDARY_THICKNESS, BOUNDARY_THICKNESS)

\* the transform scale grow_organism gives an organism: ORGANISM_SIZE * sqrt(energy)
OrganismScale(energy) ==
    LET s == Isqrt((ORGANISM_SIZE * ORGANISM_SIZE * energy) \div Unit)
    IN Vec(s, s)

\* -------------------------------------------------------------- world

(* The ECS world as a record w:
     organisms   id -> [translation, scale, direction, speed, energy, age,
                        lifetime, gene, pregnant]
     foods       id -> [translation, energy, age, lifetime]
     pheromones  id -> [translation, color, age, lifetime]
     timers      elapsed time of FoodTimer, SensoryTimer, AgeTimer, LogTimer
     delta       Time::delta() of the frame this fixed tick runs in
     commands    system -> the commands it has queued in this tick
     done        the systems that have run in this tick
     events      the CollisionEvents sent in this tick
     crashed     a system has panicked
     nextId      the next entity id
     tick        fixed ticks completed                                      *)

Systems ==
    {"pheromone_fade", "log_things", "generate_food", "age_progression",
     "check_for_collisions", "apply_direction", "grow_organism", "adjust_direction"}

\* the order the systems are given to add_systems in; command queues are
\* applied in this order
SystemOrder ==
    <<"pheromone_fade", "log_things", "generate_food", "age_progression",
      "check_for_collisions", "apply_direction", "grow_organism", "adjust_direction">>

\* the .before / .after constraints of HelloPlugin::build: <<a, b>> is a before b
Before ==
    {<<"apply_direction", "adjust_direction">>,
     <<"check_for_collisions", "grow_organism">>,
     <<"check_for_collisions", "adjust_direction">>}

\* the executor may start system s once every system ordered before it has run
Ready(s, done) ==
    s \notin done /\ \A p \in Before : p[2] = s => p[1] \in done

\* Timer::from_seconds durations of HelloPlugin::build
FoodTimerDuration == (TimeUnit \div 5) \div SIMULATION_SPEED
SensoryTimerDuration == (TimeUnit \div 2) \div SIMULATION_SPEED
AgeTimerDuration == TimeUnit \div SIMULATION_SPEED
LogTimerDuration == (10 * TimeUnit) \div SIMULATION_SPEED

\* Timer::tick of a repeating timer, and Timer::just_finished
TimerTick(elapsed, duration, delta) ==
    [elapsed |-> (elapsed + delta) % duration,
     just_finished |-> elapsed + delta >= duration]

NoCommands == [s \in Systems |-> <<>>]

Despawn(entity) == [op |-> "despawn", entity |-> entity]

\* commands.spawn of a bundle; parent names the organism that bore it (0: none)
Spawn(kind, bundle, parent) ==
    [op |-> "spawn", kind |-> kind, bundle |-> bundle, parent |-> parent]

\* the elements of a sequence
Range(seq) == {seq[k] : k \in 1 .. Len(seq)}

\* the ids of S in increasing order: the order queries visit entities in
SortedSeq(S) ==
    [k \in 1 .. Cardinality(S) |-> CHOOSE x \in S : Cardinality({y \in S : y < x}) = k - 1]

RECURSIVE Flatten(_, _)
\* seqs[k] \o ... \o seqs[Len(seqs)]
Flatten(seqs, k) ==
    IF k > Len(seqs) THEN <<>> ELSE seqs[k] \o Flatten(seqs, k + 1)

Ran(w, system, cmds) ==
    [w EXCEPT !.done = @ \cup {system}, !.commands[system] = cmds]

\* ------------------------------------------------------------ systems

\* the bounds test of apply_direction
OutOfArena(translation) ==
    \/ translation.x < LEFT_BOUNDARY
    \/ translation.x > RIGHT_BOUNDARY
    \/ translation.y < BOTTOM_BOUNDARY
    \/ translation.y > TOP_BOUNDARY

\* energy * 0.999 - speed^2 / 50000000, in thousandths and rounded down, so
\* that a move never leaves the energy of a living organism where it was
EnergyAfterMove(energy, speed) ==
    LET n == energy * (Unit - 1)
        cost == (speed * speed + 49999999) \div 50000000
    IN (n - cost) \div Unit

\* the body of apply_direction's loop after the bounds test
Moved(org) ==
    LET deltax == RoundDiv(org.direction.x * org.speed, Unit * Unit)
        deltay == RoundDiv(org.direction.y * org.speed, Unit * Unit)
    IN [org EXCEPT !.translation = Vec(@.x + deltax, @.y + deltay),
                   !.energy = EnergyAfterMove(@, org.speed)]

\* apply_direction: an organism found outside the arena gets a despawn
\* command, and is moved and charged like every other
apply_direction(w) ==
    LET ids == SortedSeq(DOMAIN w.organisms)
        cmds == Flatten([k \in 1 .. Len(ids) |->
                    IF OutOfArena(w.organisms[ids[k]].translation)
                    THEN <<Despawn(ids[k])>> ELSE <<>>], 1)
    IN Ran([w EXCEPT !.organisms = [o \in DOMAIN @ |-> Moved(@[o])]],
           "apply_direction", cmds)

\* a faulty variant of the test: one more age tick is granted
ExpiredLate(age, lifetime) == age > lifetime + 1

\* the test of age_progression
Expired(age, lifetime) == age > lifetime

\* a faulty variant of the loop body: the age is left where it was
Unaged(e) == e

\* one entity of age_progression's loop
Aged(e) == IF Expired(e.age, e.lifetime) THEN e ELSE [e EXCEPT !.age = @ + 1]

\* age_progression: on the age timer, every entity with an age and a
\* lifetime is despawned if its age exceeds its lifetime, else aged by one
age_progression(w) ==
    LET t == TimerTick(w.timers.age, AgeTimerDuration, w.delta)
        all == [id \in DOMAIN w.organisms \cup DOMAIN w.foods \cup DOMAIN w.pheromones |->
                   IF id \in DOMAIN w.organisms THEN w.organisms[id]
                   ELSE IF id \in DOMAIN w.foods THEN w.foods[id]
                   ELSE w.pheromones[id]]
        ids == SelectSeq(SortedSeq(DOMAIN all),
                         LAMBDA id : Expired(all[id].age, all[id].lifetime))
        cmds == [k \in 1 .. Len(ids) |-> Despawn(ids[k])]
        w1 == [w EXCEPT !.timers.age = t.elapsed]
    IN IF t.just_finished
       THEN Ran([w1 EXCEPT !.organisms = [o \in DOMAIN @ |-> Aged(@[o])],
                           !.foods = [f \in DOMAIN @ |-> Aged(@[f])],
                           !.pheromones = [p \in DOMAIN @ |-> Aged(@[p])]],
                "age_progression", cmds)
       ELSE Ran(w1, "age_progression", <<>>)

\* Energy(0.1), the component generate_food gives a food entity
FOOD_ENERGY == Unit \div 10

\* the bundle generate_food spawns
FoodBundle(translation) ==
    [translation |-> translation, age |-> 1, lifetime |-> FOOD_LIFETIME,
     energy |-> FOOD_ENERGY]

\* generate_food: on the food timer, FOOD_PER_TIMESTEP foods at random
\* positions; spots[k] holds the two draws of the k-th random_position
generate_food(w, spots) ==
    LET t == TimerTick(w.timers.food, FoodTimerDuration, w.delta)
        w1 == [w EXCEPT !.timers.food = t.elapsed]
    IN IF t.just_finished
       THEN Ran(w1, "generate_food",
                [k \in 1 .. FOOD_PER_TIMESTEP |->
                    Spawn("food", FoodBundle(random_position(spots[k].x, spots[k].y)), 0)])
       ELSE Ran(w1, "generate_food", <<>>)

\* log_things: on the log timer, File::create(..).unwrap() and
\* file.write(..).unwrap(); io_ok says whether the file could be written
log_things(w, io_ok) ==
    LET t == TimerTick(w.timers.log, LogTimerDuration, w.delta)
        w1 == Ran([w EXCEPT !.timers.log = t.elapsed], "log_things", <<>>)
    IN IF t.just_finished /\ ~io_ok THEN [w1 EXCEPT !.crashed = TRUE] ELSE w1

\* pheromone_fade: set_a is called on a copy of the colour; nothing changes
pheromone_fade(w) == Ran(w, "pheromone_fade", <<>>)

\* a faulty variant of the query: pheromones are colliders too, and are
\* eaten like food
CollidersWithPheromones(w) ==
    LET ids == SortedSeq(DOMAIN w.foods)
        pids == SortedSeq(DOMAIN w.pheromones)
    IN [k \in 1 .. Len(BoundaryLocation) |->
           [kind |-> "wall", id |-> BoundaryLocation[k],
            translation |-> position(BoundaryLocation[k]),
            scale |-> size(BoundaryLocation[k])]]
       \o [k \in 1 .. Len(ids) |->
           [kind |-> "food", id |-> ids[k],
            translation |-> w.foods[ids[k]].translation,
            scale |-> Vec(FOOD_SIZE, FOOD_SIZE)]]
       \o [k \in 1 .. Len(pids) |->
           [kind |-> "food", id |-> pids[k],
            translation |-> w.pheromones[pids[k]].translation,
            scale |-> Vec(PHEROMONE_SIZE, PHEROMONE_SIZE)]]

\* the entities of collider_query: the four walls, then the foods
Colliders(w) ==
    LET ids == SortedSeq(DOMAIN w.foods)
    IN [k \in 1 .. Len(BoundaryLocation) |->
           [kind |-> "wall", id |-> BoundaryLocation[k],
            translation |-> position(BoundaryLocation[k]),
            scale |-> size(BoundaryLocation[k])]]
       \o [k \in 1 .. Len(ids) |->
           [kind |-> "food", id |-> ids[k],
            translation |-> w.foods[ids[k]].translation,
            scale |-> Vec(FOOD_SIZE, FOOD_SIZE)]]

\* the energy check_for_collisions adds for a food: organism_energy.0 += 0.2
EATEN_ENERGY == Unit \div 5

\* a faulty variant of the test: the draw is ignored
BecomesPregnantWithoutDraw(energy, age, rand) ==
    energy > PREGNANCY_ENERGY_MINIMUM /\ age > FERTILE_AGE

\* the pregnancy test of check_for_collisions; rand is the draw
BecomesPregnant(energy, age, rand) ==
    energy > PREGNANCY_ENERGY_MINIMUM /\ age > FERTILE_AGE /\ rand < PREGNANT_PROBABILITY

\* a faulty variant of the wall branch: a hit on a side always turns the
\* organism round, whichever way it was heading
ReflectAlways(direction, collision) ==
    Vec(IF collision \in {"Left", "Right"} THEN -direction.x ELSE direction.x,
        IF collision \in {"Top", "Bottom"} THEN -direction.y ELSE direction.y)

\* the wall branch of check_for_collisions: reflect a heading component
\* only when it points into the struck side
Reflect(direction, collision) ==
    LET reflect_x == CASE collision = "Left"  -> direction.x > 0
                       [] collision = "Right" -> direction.x < 0
                       [] OTHER -> FALSE
        reflect_y == CASE collision = "Top"    -> direction.y < 0
                       [] collision = "Bottom" -> direction.y > 0
                       [] OTHER -> FALSE
    IN Vec(IF reflect_x THEN -direction.x ELSE direction.x,
           IF reflect_y THEN -direction.y ELSE direction.y)

\* the draw of rand::random::<f32>() for organism o meeting food f: below
\* PREGNANT_PROBABILITY exactly for the pairs in lucky
PregnancyDraw(lucky, o, f) == IF <<o, f>> \in lucky THEN 0 ELSE Unit - 1

\* one collider of the inner loop of check_for_collisions, for organism o;
\* st carries the organism, the commands queued and the events sent so far.
\* An event also records what the collision read and wrote.
CollideOne(st, c, o, lucky) ==
    LET collision == collide(st.org.translation, st.org.scale, c.translation, c.scale)
        energy == st.org.energy + EATEN_ENERGY
        rand == PregnancyDraw(lucky, o, c.id)
        fed == [st.org EXCEPT !.energy = energy,
                              !.pregnant = IF BecomesPregnant(energy, st.org.age, rand)
                                           THEN TRUE ELSE @]
        turned == [st.org EXCEPT !.direction = Reflect(@, collision)]
    IN IF collision = "None" THEN st
       ELSE IF c.kind = "food"
       THEN [org |-> fed,
             cmds |-> Append(st.cmds, Despawn(c.id)),
             events |-> Append(st.events,
                 [kind |-> "Food", organism |-> o, collider |-> c.id,
                  collision |-> collision, before |-> st.org, after |-> fed,
                  rand |-> rand])]
       ELSE [org |-> turned,
             cmds |-> st.cmds,
             events |-> Append(st.events,
                 [kind |-> "Wall", organism |-> o, collider |-> c.id,
                  collision |-> collision, before |-> st.org, after |-> turned,
                  rand |-> 0])]

\* the colliders an organism touches, in query order; the loop moves and
\* resizes nothing, so they are the same all through it
Touched(org, cs) ==
    SelectSeq(cs, LAMBDA c : collide(org.translation, org.scale, c.translation, c.scale) # "None")

RECURSIVE CollideLoop(_, _, _, _, _)
CollideLoop(st, cs, k, o, lucky) ==
    IF k > Len(cs) THEN st
    ELSE CollideLoop(CollideOne(st, cs[k], o, lucky), cs, k + 1, o, lucky)

\* check_for_collisions: every organism against every collider
check_for_collisions(w, lucky) ==
    LET ids == SortedSeq(DOMAIN w.organisms)
        cs == Colliders(w)
        res == [o \in DOMAIN w.organisms |->
                   CollideLoop([org |-> w.organisms[o], cmds |-> <<>>, events |-> <<>>],
                               Touched(w.organisms[o], cs), 1, o, lucky)]
    IN Ran([w EXCEPT !.organisms = [o \in DOMAIN @ |-> res[o].org],
                     !.events = @ \o Flatten([k \in 1 .. Len(ids) |-> res[ids[k]].events], 1)],
           "check_for_collisions",
           Flatten([k \in 1 .. Len(ids) |-> res[ids[k]].cmds], 1))

\* the organism-food pairs for which check_for_collisions draws at all
DrawPairs(w) ==
    LET ev == check_for_collisions(w, {}).events
    IN {<<ev[k].organism, ev[k].collider>> : k \in
           {j \in 1 .. Len(ev) : /\ ev[j].kind = "Food"
                                 /\ ev[j].after.energy > PREGNANCY_ENERGY_MINIMUM
                                 /\ ev[j].after.age > FERTILE_AGE}}

\* a faulty variant of the test: the upper bound is forgotten
EnergyOutOfRangeLowOnly(energy) == energy < ORGANISM_MIN_ENERGY

\* the first test of grow_organism
EnergyOutOfRange(energy) ==
    energy < ORGANISM_MIN_ENERGY \/ energy > ORGANISM_MAX_ENERGY

\* a faulty variant of the bundle: the child starts with the parent's reset
\* energy
OffspringFullEnergy(parent, gene, direction) ==
    [translation |-> parent.translation,
     scale |-> Vec(ORGANISM_SIZE, ORGANISM_SIZE),
     direction |-> direction,
     speed |-> ORGANISM_DEFAULT_SPEED,
     energy |-> Unit,
     age |-> 1,
     lifetime |-> ORGANISM_DEFAULT_LIFETIME,
     gene |-> gene,
     pregnant |-> FALSE]

\* the bundle grow_organism spawns for one child
Offspring(parent, gene, direction) ==
    [translation |-> parent.translation,
     scale |-> Vec(ORGANISM_SIZE, ORGANISM_SIZE),
     direction |-> direction,
     speed |-> ORGANISM_DEFAULT_SPEED,
     energy |-> Unit \div 2,
     age |-> 1,
     lifetime |-> ORGANISM_DEFAULT_LIFETIME,
     gene |-> gene,
     pregnant |-> FALSE]

\* the children of one pregnancy; litter.genes[c] are the draws of the c-th
\* mutate, litter.dirs[c] the draws of the c-th random_direction
Children(o, parent, litter) ==
    [c \in 1 .. CHILDREN_PER_PREGNANCY |->
        Spawn("organism",
              Offspring(parent, mutate(parent.gene, litter.genes[c]),
                        random_direction(litter.dirs[c].x, litter.dirs[c].y)),
              o)]

\* a faulty variant of the loop body: the reset to 1.0 is given to every
\* organism whose energy is in range, pregnant or not
GrownAllReset(org) ==
    IF EnergyOutOfRange(org.energy) THEN org
    ELSE [org EXCEPT !.energy = Unit, !.pregnant = FALSE]

\* one organism of grow_organism's loop, without the final resize
Grown(org) ==
    IF EnergyOutOfRange(org.energy) THEN org
    ELSE IF org.pregnant THEN [org EXCEPT !.energy = Unit, !.pregnant = FALSE]
    ELSE org

\* grow_organism: despawn on energy out of range, else bear children when
\* pregnant; then resize (the square root of a negative energy, NaN in the
\* source, gives 0 here)
grow_organism(w, litter) ==
    LET ids == SortedSeq(DOMAIN w.organisms)
        cmds == Flatten([k \in 1 .. Len(ids) |->
                    LET org == w.organisms[ids[k]]
                    IN IF EnergyOutOfRange(org.energy) THEN <<Despawn(ids[k])>>
                       ELSE IF org.pregnant THEN Children(ids[k], org, litter)
                       ELSE <<>>], 1)
    IN Ran([w EXCEPT !.organisms =
                [o \in DOMAIN @ |-> [Grown(@[o]) EXCEPT !.scale = OrganismScale(Grown(w.organisms[o]).energy)]]],
           "grow_organism", cmds)

\* the sensor a food feeds in adjust_direction and what it adds to it:
\* sensor -1 when the food is out of sight or in no cone.  alpha, the angle
\* from the food's bearing to the heading, is compared through its cosine
\* and the sign of the perp product (Vec2::angle_between)
FoodSignal(org, food_pos) ==
    LET dir == Vec(food_pos.x - org.translation.x, food_pos.y - org.translation.y)
        d2 == dir.x * dir.x + dir.y * dir.y
        dist == Isqrt(d2)
        len == dist * Length(org.direction)
        dot == dir.x * org.direction.x + dir.y * org.direction.y
        perp == dir.x * org.direction.y - dir.y * org.direction.x
        cosa == RoundDiv(dot * Unit, len)
        food_val == RoundDiv(ORGANISM_VISION * (Unit \div 2), ORGANISM_VISION + dist)
        near == Cos(Unit \div 10)
        far == Cos(Unit)
    IN IF d2 >= ORGANISM_VISION * ORGANISM_VISION \/ len = 0
       THEN [sensor |-> -1, val |-> 0]
       ELSE IF cosa > near THEN [sensor |-> 1, val |-> food_val]
       ELSE IF perp > 0 /\ cosa > far /\ cosa < near THEN [sensor |-> 0, val |-> food_val]
       ELSE IF perp < 0 /\ cosa > far /\ cosa < near THEN [sensor |-> 2, val |-> food_val]
       ELSE [sensor |-> -1, val |-> 0]

RECURSIVE SumSensor(_, _, _, _, _)
\* foods[j] of adjust_direction, summed over the foods in query order
SumSensor(org, foods, ids, k, j) ==
    IF k > Len(ids) THEN 0
    ELSE LET sig == FoodSignal(org, foods[ids[k]].translation)
         IN (IF sig.sensor = j THEN sig.val ELSE 0) + SumSensor(org, foods, ids, k + 1, j)

\* the border override of adjust_direction
NearBorderHeadingOut(x_pos, y_pos, direction) ==
    \/ (x_pos < Unit \div 10 /\ direction.x < 0)
    \/ (x_pos > 9 * (Unit \div 10) /\ direction.x > 0)
    \/ (y_pos < Unit \div 10 /\ direction.y < 0)
    \/ (y_pos > 9 * (Unit \div 10) /\ direction.y > 0)

\* the inputs array adjust_direction hands to GeneInfo::process
Inputs(org, foods) ==
    LET ids == SortedSeq(DOMAIN foods)
        sensed == [j \in 0 .. 2 |-> SumSensor(org, foods, ids, 1, j)]
        x_pos == RoundDiv((org.translation.x - LEFT_BOUNDARY) * Unit, RIGHT_BOUNDARY - LEFT_BOUNDARY)
        y_pos == RoundDiv((org.translation.y - BOTTOM_BOUNDARY) * Unit, TOP_BOUNDARY - BOTTOM_BOUNDARY)
        ahead == IF NearBorderHeadingOut(x_pos, y_pos, org.direction) THEN -Unit ELSE sensed[1]
    IN [i \in 0 .. 7 |->
           CASE i = 0 -> RoundDiv(org.speed * Unit, ORGANISM_DEFAULT_SPEED)
             [] i = 1 -> x_pos
             [] i = 2 -> y_pos
             [] i = 3 -> RoundDiv((org.energy - ORGANISM_MIN_ENERGY) * Unit,
                                  ORGANISM_MAX_ENERGY - ORGANISM_MIN_ENERGY)
             [] i = 4 -> RoundDiv(org.lifetime * Unit, ORGANISM_DEFAULT_LIFETIME)
             [] i = 5 -> Clamp(sensed[0], 0, Unit)
             [] i = 6 -> Clamp(ahead, 0, Unit)
             [] i = 7 -> Clamp(sensed[2], 0, Unit)]

\* a faulty variant of the loop body: the new speed is not clamped
SteeredUnclamped(org, foods) ==
    LET output == process(org.gene, Inputs(org, foods))
    IN [org EXCEPT !.direction = rotate_direction(@, output[0]),
                   !.speed = @ + output[1]]

\* one organism of adjust_direction's loop: turn by output[0], change speed
\* by output[1]
Steered(org, foods) ==
    LET output == process(org.gene, Inputs(org, foods))
    IN [org EXCEPT !.direction = rotate_direction(@, output[0]),
                   !.speed = Clamp(@ + output[1], 0, ORGANISM_DEFAULT_SPEED)]

\* the bundle adjust_direction spawns
PheromoneBundle(org) ==
    [translation |-> org.translation, color |-> color(org.gene),
     age |-> 1, lifetime |-> PHEROMONE_DEFAULT_LIFETIME]

\* adjust_direction: on the sensory timer, every organism senses, steers
\* and leaves a pheromone
adjust_direction(w) ==
    LET t == TimerTick(w.timers.sensory, SensoryTimerDuration, w.delta)
        w1 == [w EXCEPT !.timers.sensory = t.elapsed]
        ids == SortedSeq(DOMAIN w.organisms)
    IN IF t.just_finished
       THEN Ran([w1 EXCEPT !.organisms = [o \in DOMAIN @ |-> Steered(@[o], w.foods)]],
                "adjust_direction",
                [k \in 1 .. Len(ids) |->
                    Spawn("pheromone", PheromoneBundle(w.organisms[ids[k]]), 0)])
       ELSE Ran(w1, "adjust_direction", <<>>)

\* --------------------------------------------------- command application

\* the entities the despawn commands of cmds name; despawning a missing
\* entity does nothing
Despawned(cmds) ==
    {cmds[k].entity : k \in {j \in 1 .. Len(cmds) : cmds[j].op = "despawn"}}

\* the spawn commands of cmds, in the order they were queued
Spawned(cmds) == SelectSeq(cmds, LAMBDA c : c.op = "spawn")

\* the entities of one kind after the commands: those not despawned, and
\* the bundles spawned, which take the ids from first on in queue order
Applied(f, kind, gone, born, first) ==
    LET ids == {first + k - 1 : k \in {j \in 1 .. Len(born) : born[j].kind = kind}}
    IN [id \in (DOMAIN f \ gone) \cup ids |->
           IF id \in DOMAIN f THEN f[id] ELSE born[id - first + 1].bundle]

\* the queued commands applied to the world
ApplyCommands(w, cmds) ==
    LET gone == Despawned(cmds)
        born == Spawned(cmds)
    IN [w EXCEPT !.organisms = Applied(@, "organism", gone, born, w.nextId),
                 !.foods = Applied(@, "food", gone, born, w.nextId),
                 !.pheromones = Applied(@, "pheromone", gone, born, w.nextId),
                 !.nextId = @ + Len(born)]

\* every command queued in this tick, system by system
Queued(w) == Flatten([k \in 1 .. Len(SystemOrder) |-> w.commands[SystemOrder[k]]], 1)

\* the end of one run of the FixedUpdate schedule: the queued commands are
\* applied; delta is Time::delta() for the next run
apply_system_buffers(w, delta) ==
    [ApplyCommands(w, Queued(w)) EXCEPT
        !.commands = NoCommands, !.done = {}, !.events = <<>>,
        !.tick = @ + 1, !.delta = delta]

\* -------------------------------------------------------------- state

VARIABLES organisms, foods, pheromones, timers, delta, commands, done, events,
          crashed, nextId, tick,
          \* a second run of the simulation, for comparing two runs
          twin,
          \* one genome under repeated mutation, for GeneInfo on its own
          lab

vars == <<organisms, foods, pheromones, timers, delta, commands, done, events,
          crashed, nextId, tick, twin, lab>>

\* the world the variables hold
W ==
    [organisms |-> organisms, foods |-> foods, pheromones |-> pheromones,
     timers |-> timers, delta |-> delta, commands |-> commands, done |-> done,
     events |-> events, crashed |-> crashed, nextId |-> nextId, tick |-> tick]

\* the variables of the world take the values of world w
InstallWorld(w) ==
    /\ organisms' = w.organisms
    /\ foods' = w.foods
    /\ pheromones' = w.pheromones
    /\ timers' = w.timers
    /\ delta' = w.delta
    /\ commands' = w.commands
    /\ done' = w.done
    /\ events' = w.events
    /\ crashed' = w.crashed
    /\ nextId' = w.nextId
    /\ tick' = w.tick

\* a step of the simulation: the world becomes w
Install(w) == InstallWorld(w) /\ UNCHANGED <<twin, lab>>

\* the variables of the world hold world w
Holds(w) ==
    /\ organisms = w.organisms
    /\ foods = w.foods
    /\ pheromones = w.pheromones
    /\ timers = w.timers
    /\ delta = w.delta
    /\ commands = w.commands
    /\ done = w.done
    /\ events = w.events
    /\ crashed = w.crashed
    /\ nextId = w.nextId
    /\ tick = w.tick

\* ------------------------------------------------------------- bounds

\* fixed ticks a run of the model lasts
MaxTicks == 2

\* Time::delta() of a frame: a regular frame of 1/60 s, or a stall of 2 s
Deltas == {TIME_STEP, LogTimerDuration}

\* draws of random_direction that give the four axis headings
East == Vec(3 * (Unit \div 4), Unit \div 2)
West == Vec(Unit \div 4, Unit \div 2)
North == Vec(Unit \div 2, 3 * (Unit \div 4))
South == Vec(Unit \div 2, Unit \div 4)
Heading(d) == random_direction(d.x, d.y)

\* an organism as the program holds it between two ticks; x, y in world units
Organism(x, y, d, energy, age) ==
    [translation |-> Vec(x, y),
     scale |-> OrganismScale(energy),
     direction |-> Heading(d),
     speed |-> ORGANISM_DEFAULT_SPEED,
     energy |-> energy,
     age |-> age,
     lifetime |-> ORGANISM_DEFAULT_LIFETIME,
     gene |-> planned,
     pregnant |-> FALSE]

FoodAt(x, y, age) == [FoodBundle(Vec(x, y)) EXCEPT !.age = age]

PheromoneAt(x, y, age) == [PheromoneBundle(Organism(x, y, East, Unit, 1)) EXCEPT !.age = age]

\* the draws of the two random_position calls of one generate_food
FoodDraws ==
    {<<Vec(Unit \div 2, Unit \div 2), Vec(Unit \div 2 + 7, Unit \div 2)>>}

\* mutate draws: no gene is hit, or the genes of S are hit with draw r
NoHit == [p |-> [i \in GeneIdx |-> Unit - 1], r |-> [i \in GeneIdx |-> 0]]
Hit(S, r) == [p |-> [i \in GeneIdx |-> IF i \in S THEN 0 ELSE Unit - 1],
              r |-> [i \in GeneIdx |-> r]]

\* a genome four mutations away from planned: the turning bias gene[0] has
\* been moved up as far as the draws allow each time
Evolved ==
    mutate(mutate(mutate(mutate(planned, Hit({0}, Unit - 1)), Hit({0}, Unit - 1)),
                  Hit({0}, Unit - 1)), Hit({0}, Unit - 1))

\* the draws of the mutate and random_direction calls of one pregnancy
Litters ==
    {[genes |-> [c \in 1 .. CHILDREN_PER_PREGNANCY |-> NoHit],
      dirs |-> [c \in 1 .. CHILDREN_PER_PREGNANCY |-> East]],
     [genes |-> [c \in 1 .. CHILDREN_PER_PREGNANCY |->
                    Hit({c, 17}, IF c % 2 = 1 THEN 0 ELSE Unit - 2)],
      dirs |-> [c \in 1 .. CHILDREN_PER_PREGNANCY |->
                    <<East, North, West, South>>[(c % 4) + 1]]]}

\* populations the program can hold between two ticks
Scenarios ==
    {\* organisms at the four walls heading into them, two heading away
     [organisms |-> <<Organism(592 * PosUnit, 0, East, Unit, 1),
                      Organism(-592 * PosUnit, 0, West, Unit, 1),
                      Organism(0, 292 * PosUnit, North, Unit, 1),
                      Organism(0, -292 * PosUnit, South, Unit, 1),
                      Organism(592 * PosUnit, 100 * PosUnit, West, Unit, 1),
                      Organism(200 * PosUnit, 292 * PosUnit, South, Unit, 1)>>,
      foods |-> <<>>, pheromones |-> <<>>],
     \* a fertile organism on a food, another food ahead of it
     [organisms |-> <<Organism(0, 0, East, 19 * (Unit \div 10), FERTILE_AGE + 1)>>,
      foods |-> <<FoodAt(5 * PosUnit, 0, 1), FoodAt(50 * PosUnit, 0, 1)>>,
      pheromones |-> <<>>],
     \* a young organism on two foods, and a fat fertile organism on a food
     [organisms |-> <<Organism(0, 0, North, 19 * (Unit \div 10), FERTILE_AGE),
                      Organism(300 * PosUnit, 0, West, 39 * (Unit \div 10), FERTILE_AGE + 1)>>,
      foods |-> <<FoodAt(5 * PosUnit, 0, 1), FoodAt(-5 * PosUnit, 0, 1),
                  FoodAt(305 * PosUnit, 0, 1)>>,
      pheromones |-> <<>>],
     \* a starving organism, two organisms on one food, and entities at the
     \* end of their lifetimes
     [organisms |-> <<Organism(-300 * PosUnit, 0, South, ORGANISM_MIN_ENERGY, 10),
                      Organism(0, 0, East, Unit, 1),
                      Organism(3 * PosUnit, 0, West, Unit, 1),
                      Organism(300 * PosUnit, 0, East, Unit, ORGANISM_DEFAULT_LIFETIME)>>,
      foods |-> <<FoodAt(PosUnit, 0, 1), FoodAt(0, 200 * PosUnit, FOOD_LIFETIME)>>,
      pheromones |-> <<PheromoneAt(300 * PosUnit, 0, PHEROMONE_DEFAULT_LIFETIME)>>],
     \* a fertile organism about to cross the right edge, a food at the edge,
     \* and an evolved organism near the edge heading out
     [organisms |-> <<Organism(600 * PosUnit - 6, 0, East, 19 * (Unit \div 10), FERTILE_AGE + 1),
                      [Organism(500 * PosUnit, 100 * PosUnit, East, Unit, FERTILE_AGE + 1)
                          EXCEPT !.gene = Evolved]>>,
      foods |-> <<FoodAt(598 * PosUnit, 0, 1)>>, pheromones |-> <<>>]}

\* the genome laboratory at rest
LabIdle == [genome |-> planned, hits |-> {}, generation |-> 0]

\* the world of a scenario: its entities numbered from 1, timers at zero
World(sc, d) ==
    LET no == Len(sc.organisms)
        nf == Len(sc.foods)
        np == Len(sc.pheromones)
    IN [organisms |-> [id \in 1 .. no |-> sc.organisms[id]],
        foods |-> [id \in (no + 1) .. (no + nf) |-> sc.foods[id - no]],
        pheromones |-> [id \in (no + nf + 1) .. (no + nf + np) |-> sc.pheromones[id - no - nf]],
        timers |-> [food |-> 0, sensory |-> 0, age |-> 0, log |-> 0],
        delta |-> d,
        commands |-> NoCommands,
        done |-> {},
        events |-> <<>>,
        crashed |-> FALSE,
        nextId |-> no + nf + np + 1,
        tick |-> 0]

Init ==
    /\ \E sc \in Scenarios, d \in Deltas : Holds(World(sc, d))
    /\ twin = <<>>
    /\ lab = LabIdle

\* ------------------------------------------------------------ actions

\* system s may run now
CanRun(s) == ~crashed /\ tick < MaxTicks /\ Ready(s, done)

Fires(elapsed, duration) == TimerTick(elapsed, duration, delta).just_finished

PheromoneFade ==
    /\ CanRun("pheromone_fade")
    /\ Install(pheromone_fade(W))

LogThings ==
    /\ CanRun("log_things")
    /\ \E io_ok \in (IF Fires(timers.log, LogTimerDuration) THEN BOOLEAN ELSE {TRUE}) :
          Install(log_things(W, io_ok))

GenerateFood ==
    /\ CanRun("generate_food")
    /\ \E spots \in (IF Fires(timers.food, FoodTimerDuration) THEN FoodDraws
                     ELSE {<<Vec(0, 0), Vec(0, 0)>>}) :
          Install(generate_food(W, spots))

AgeProgression ==
    /\ CanRun("age_progression")
    /\ Install(age_progression(W))

CheckForCollisions ==
    /\ CanRun("check_for_collisions")
    /\ \E lucky \in SUBSET DrawPairs(W) : Install(check_for_collisions(W, lucky))

ApplyDirection ==
    /\ CanRun("apply_direction")
    /\ Install(apply_direction(W))

\* some organism is about to bear children
Bearing(w) ==
    \E o \in DOMAIN w.organisms :
        w.organisms[o].pregnant /\ ~EnergyOutOfRange(w.organisms[o].energy)

GrowOrganism ==
    /\ CanRun("grow_organism")
    /\ \E litter \in (IF Bearing(W) THEN Litters
                      ELSE {CHOOSE l \in Litters : TRUE}) :
          Install(grow_organism(W, litter))

AdjustDirection ==
    /\ CanRun("adjust_direction")
    /\ Install(adjust_direction(W))

ApplySystemBuffers ==
    /\ ~crashed
    /\ done = Systems
    /\ \E d \in Deltas : Install(apply_system_buffers(W, d))

Next ==
    \/ PheromoneFade
    \/ LogThings
    \/ GenerateFood
    \/ AgeProgression
    \/ CheckForCollisions
    \/ ApplyDirection
    \/ GrowOrganism
    \/ AdjustDirection
    \/ ApplySystemBuffers

Spec == Init /\ [][Next]_vars

\* ------------------------------------------------ genomes on their own

\* mutations in a row the genome laboratory applies
MaxGenerations == 3

\* genomes an organism can start from: planned, and Default over three
\* arrays of draws (all lowest, all highest, spread)
Seeds ==
    {planned,
     Default([i \in GeneIdx |-> 0]),
     Default([i \in GeneIdx |-> Unit - 1]),
     Default([i \in GeneIdx |-> (i * 37) % Unit])}

\* the draws of one mutate: no gene hit, or some genes hit and moved down as
\* far, or up as far, as the draw allows
MutationDraws ==
    {NoHit} \cup {Hit(S, r) : S \in {{0}, {17}, {8, 26}, GeneIdx}, r \in {0, Unit - 1}}

\* a world with nothing in it: every organism has died
Barren == World([organisms |-> <<>>, foods |-> <<>>, pheromones |-> <<>>], TIME_STEP)

InitGene ==
    /\ Holds(Barren)
    /\ twin = <<>>
    /\ \E seed \in Seeds : lab = [genome |-> seed, hits |-> {}, generation |-> 0]

\* one call of GeneInfo::mutate on the laboratory's genome; hits are the
\* genes whose first draw was below MUTATION_RATE
Mutate ==
    /\ lab.generation < MaxGenerations
    /\ \E draws \in MutationDraws :
          lab' = [genome |-> mutate(lab.genome, draws),
                  hits |-> {i \in GeneIdx : draws.p[i] < MUTATION_RATE},
                  generation |-> lab.generation + 1]
    /\ UNCHANGED <<organisms, foods, pheromones, timers, delta, commands, done,
                   events, crashed, nextId, tick, twin>>

NextGene == Mutate

SpecGene == InitGene /\ [][NextGene]_vars

\* ------------------------------------------------------- two runs

\* fixed ticks the two runs last
TwinTicks == 2

\* order is an execution order of the eight systems that the constraints
\* of HelloPlugin::build permit
Permitted(order) ==
    /\ Len(order) = Cardinality(Systems)
    /\ Range(order) = Systems
    /\ \A p \in Before :
          \E i, j \in 1 .. Len(order) : i < j /\ order[i] = p[1] /\ order[j] = p[2]

\* some of the execution orders the executor may choose
Orders ==
    {order \in
        {<<"pheromone_fade", "log_things", "generate_food", "age_progression",
           "apply_direction", "check_for_collisions", "grow_organism", "adjust_direction">>,
         <<"pheromone_fade", "log_things", "generate_food", "age_progression",
           "check_for_collisions", "apply_direction", "grow_organism", "adjust_direction">>,
         <<"pheromone_fade", "log_things", "generate_food", "age_progression",
           "check_for_collisions", "grow_organism", "apply_direction", "adjust_direction">>,
         <<"apply_direction", "check_for_collisions", "adjust_direction", "grow_organism",
           "age_progression", "generate_food", "log_things", "pheromone_fade">>} :
        Permitted(order)}

\* the random draws of one tick, the same whichever order the systems run in
TickDraws(w) ==
    [lucky : {{}, (DOMAIN w.organisms) \X (DOMAIN w.foods)},
     litter : Litters,
     spots : FoodDraws]

\* system s run on world w with the draws dr
RunSystem(w, s, dr) ==
    CASE s = "pheromone_fade" -> pheromone_fade(w)
      [] s = "log_things" -> log_things(w, TRUE)
      [] s = "generate_food" -> generate_food(w, dr.spots)
      [] s = "age_progression" -> age_progression(w)
      [] s = "check_for_collisions" -> check_for_collisions(w, dr.lucky)
      [] s = "apply_direction" -> apply_direction(w)
      [] s = "grow_organism" -> grow_organism(w, dr.litter)
      [] s = "adjust_direction" -> adjust_direction(w)

RECURSIVE RunSystems(_, _, _, _)
\* the systems of order from the k-th on, one after the other; a panic ends
\* the run
RunSystems(w, order, k, dr) ==
    IF k > Len(order) \/ w.crashed THEN w
    ELSE RunSystems(RunSystem(w, order[k], dr), order, k + 1, dr)

\* one run of the FixedUpdate schedule in the given order
RunTick(w, order, dr, d) == apply_system_buffers(RunSystems(w, order, 1, dr), d)

InitTwin ==
    /\ \E sc \in Scenarios, d \in Deltas : Holds(World(sc, d)) /\ twin = World(sc, d)
    /\ lab = LabIdle

\* both runs do one tick with the same draws and the same frame time: the
\* first in the order the systems are listed in, the second in any order
TwinTick ==
    /\ tick < TwinTicks
    /\ \E dr \in TickDraws(W), d \in Deltas, other \in Orders :
          /\ InstallWorld(RunTick(W, SystemOrder, dr, d))
          /\ twin' = RunTick(twin, other, dr, d)
    /\ UNCHANGED lab

NextTwin == TwinTick

SpecDet == InitTwin /\ [][NextTwin]_vars

\* ---------------------------------------- two runs, other pheromones

\* the population of scenario sc with no pheromone at all
Unscented(sc) == [sc EXCEPT !.pheromones = <<>>]

\* the population of scenario sc with a fresh and an old pheromone under
\* every organism and on every food
Scented(sc) ==
    [sc EXCEPT !.pheromones =
        [k \in 1 .. Len(sc.organisms) |->
            PheromoneAt(sc.organisms[k].translation.x, sc.organisms[k].translation.y, 1)]
        \o [k \in 1 .. Len(sc.foods) |->
            PheromoneAt(sc.foods[k].translation.x, sc.foods[k].translation.y,
                        PHEROMONE_DEFAULT_LIFETIME)]]

\* the second run starts from the organisms and foods of the first, with
\* other pheromones
InitScent ==
    /\ \E sc \in Scenarios, d \in Deltas :
          /\ Holds(World(sc, d))
          /\ \E other \in {Unscented(sc), Scented(sc)} :
                /\ other.pheromones # sc.pheromones
                /\ twin = World(other, d)
    /\ lab = LabIdle

\* the random draws of one tick of the two runs: every pregnancy draw is
\* below PREGNANT_PROBABILITY, or none is
ScentDraws ==
    [lucky : {{}, (DOMAIN organisms \cup DOMAIN twin.organisms)
                     \X (DOMAIN foods \cup DOMAIN twin.foods)},
     litter : Litters,
     spots : FoodDraws]

\* both runs do one tick with the same draws, frame time and order
ScentTick ==
    /\ tick < TwinTicks
    /\ \E dr \in ScentDraws, d \in Deltas :
          /\ InstallWorld(RunTick(W, SystemOrder, dr, d))
          /\ twin' = RunTick(twin, SystemOrder, dr, d)
    /\ UNCHANGED lab

NextScent == ScentTick

SpecScent == InitScent /\ [][NextScent]_vars

\* ------------------------------------------------- a run that goes on

\* fixed ticks the run lasts
LiveTicks == 14

\* the random draws of one tick of the run: in its first tick every
\* pregnancy draw is below PREGNANT_PROBABILITY, or none is; later none is
LiveDraws(w) ==
    IF w.tick = 0 THEN TickDraws(w)
    ELSE [lucky : {{}}, litter : {CHOOSE l \in Litters : TRUE}, spots : FoodDraws]

\* one run of the FixedUpdate schedule, in the order the systems are listed
\* in; the frame time stays what it was
LiveTick ==
    /\ ~crashed
    /\ tick < LiveTicks
    /\ \E dr \in LiveDraws(W) : Install(RunTick(W, SystemOrder, dr, delta))

\* log_things panics on its file: the run ends
LivePanic ==
    /\ ~crashed
    /\ tick < LiveTicks
    /\ Fires(timers.log, LogTimerDuration)
    /\ Install(log_things(W, FALSE))

NextLive == LiveTick \/ LivePanic

\* the tick count goes up: what LiveTick, and no other step, does whenever
\* it can be taken
Advance == ~crashed /\ tick < LiveTicks /\ tick' = tick + 1

\* the runner keeps running the FixedUpdate schedule for as long as the
\* application lives
SpecLive == Init /\ [][NextLive]_vars /\ WF_tick(Advance)

\* ------------------------------------------------------------- claims

\* system s runs in this step
Step(s) == s \notin done /\ s \in done'

\* the queued commands are applied in this step
BuffersStep == tick' = tick + 1

\* the events of this tick that organism o took part in
EventsOf(evs, o) == SelectSeq(evs, LAMBDA e : e.organism = o)

\* C1: an organism that the movement step has put outside the arena is
\* removed in that same tick before the other systems can touch it: the
\* collision step neither changes it nor sends an event for it, the growth
\* step spawns no child of it, and it is gone when the tick ends.
C1_RemovedBeforeOtherSystems ==
    [][\A o \in DOMAIN organisms :
          ("apply_direction" \in done /\ OutOfArena(organisms[o].translation)) =>
             /\ Step("check_for_collisions") =>
                   /\ organisms'[o] = organisms[o]
                   /\ EventsOf(events', o) = <<>>
             /\ Step("grow_organism") =>
                   \A c \in Range(commands'["grow_organism"]) :
                       c.op = "spawn" => c.parent # o
             /\ BuffersStep => o \notin DOMAIN organisms']_vars

\* C2: within every tick, movement runs before collision resolution, and
\* collision resolution before growth and before the sensory update.
C2_MandatoryOrder ==
    /\ "check_for_collisions" \in done => "apply_direction" \in done
    /\ "grow_organism" \in done => "check_for_collisions" \in done
    /\ "adjust_direction" \in done => "check_for_collisions" \in done

\* C3: an organism whose energy is below 0.2 or above 4.0 when grow_organism
\* processes it gets a despawn command in that step, and is no longer in the
\* world when the commands of that tick have been applied.
C3_OutOfRangeDespawned ==
    [][/\ Step("grow_organism") =>
             \A o \in DOMAIN organisms :
                 (organisms[o].energy < ORGANISM_MIN_ENERGY
                  \/ organisms[o].energy > ORGANISM_MAX_ENERGY)
                 => Despawn(o) \in Range(commands'["grow_organism"])
       /\ BuffersStep =>
             \A c \in Range(commands["grow_organism"]) :
                 c.op = "despawn" => c.entity \notin DOMAIN organisms']_vars

\* grow_organism has queued the despawn of an organism above the maximum
\* energy
C3_Witness ==
    /\ "grow_organism" \in done
    /\ \E o \in DOMAIN organisms :
          /\ organisms[o].energy > ORGANISM_MAX_ENERGY
          /\ Despawn(o) \in Range(commands["grow_organism"])

\* the spawn commands of grow_organism that name o as the parent
Litter(cmds, o) == SelectSeq(cmds, LAMBDA c : c.op = "spawn" /\ c.parent = o)

\* gene is parent moved by mutate: every gene is kept, or moved by at most
\* 0.25 and kept within [-1, 1]
MutatedFrom(gene, parent) ==
    /\ DOMAIN gene = GeneIdx
    /\ \A i \in GeneIdx :
          \/ gene[i] = parent[i]
          \/ Abs(gene[i] - parent[i]) <= Unit \div 4 /\ Abs(gene[i]) <= Unit

\* what grow_organism does for a pregnant organism o, as the claim has it
Bears(o) ==
    LET kids == Litter(commands'["grow_organism"], o)
    IN /\ organisms'[o].energy = Unit
       /\ ~organisms'[o].pregnant
       /\ Len(kids) = CHILDREN_PER_PREGNANCY
       /\ \A k \in 1 .. Len(kids) :
             /\ kids[k].kind = "organism"
             /\ kids[k].bundle.translation = organisms[o].translation
             /\ kids[k].bundle.energy = Unit \div 2
             /\ kids[k].bundle.age = 1
             /\ kids[k].bundle.lifetime = ORGANISM_DEFAULT_LIFETIME
             /\ kids[k].bundle.speed = ORGANISM_DEFAULT_SPEED
             /\ ~kids[k].bundle.pregnant
             /\ MutatedFrom(kids[k].bundle.gene, organisms[o].gene)

\* the organisms the queued spawn commands ask for are the new organisms of
\* the world once the commands are applied
LitterAppears ==
    LET kids == SelectSeq(Queued(W), LAMBDA c : c.op = "spawn" /\ c.kind = "organism")
        born == DOMAIN organisms' \ DOMAIN organisms
    IN /\ Cardinality(born) = Len(kids)
       /\ \A k \in 1 .. Len(kids) : \E id \in born : organisms'[id] = kids[k].bundle

\* C4 as stated: every pregnant organism that grow_organism processes has
\* its energy reset to 1.0 and its flag cleared, and exactly 10 children are
\* queued at its position with energy 0.5, age 1, the default lifetime and
\* speed, pregnant = false and a genome mutated from the parent's.
C4_EveryPregnancyBears ==
    [][Step("grow_organism") =>
          \A o \in DOMAIN organisms : organisms[o].pregnant => Bears(o)]_vars

\* C4 amended: a pregnant organism whose energy is within [0.2, 4.0] when
\* grow_organism processes it has its energy reset to 1.0 and its flag
\* cleared, and exactly 10 children are queued at its position with energy
\* 0.5, age 1, the default lifetime and speed, pregnant = false and a genome
\* mutated from the parent's; the children are in the world when the tick
\* ends.
C4_PregnantInRangeBears ==
    [][/\ Step("grow_organism") =>
             \A o \in DOMAIN organisms :
                 (organisms[o].pregnant /\ ~(organisms[o].energy < ORGANISM_MIN_ENERGY)
                  /\ ~(organisms[o].energy > ORGANISM_MAX_ENERGY)) => Bears(o)
       /\ BuffersStep => LitterAppears]_vars

\* a parent has been reset and its ten children are queued, one of them
\* with a mutated genome
C4_Witness ==
    /\ "grow_organism" \in done
    /\ \E o \in DOMAIN organisms :
          /\ organisms[o].energy = Unit
          /\ Len(Litter(commands["grow_organism"], o)) = CHILDREN_PER_PREGNANCY
          /\ \E c \in Range(Litter(commands["grow_organism"], o)) :
                c.bundle.gene # organisms[o].gene

\* C5: on every organism-food collision the organism's energy grows by the
\* Energy value stored on the food it ate, and the food is despawned.
C5_CreditsStoredEnergy ==
    [][Step("check_for_collisions") =>
          \A k \in 1 .. Len(events') :
              events'[k].kind = "Food" =>
                 /\ events'[k].after.energy - events'[k].before.energy
                       = foods[events'[k].collider].energy
                 /\ Despawn(events'[k].collider)
                       \in Range(commands'["check_for_collisions"])]_vars

\* C6: the pregnant flag of an organism turns from false to true only in
\* the collision step, in a food collision after which its energy is above
\* 2.0, with its age above 25 and the draw below PREGNANT_PROBABILITY; and
\* every food collision where the three hold leaves the flag set.
C6_PregnantOnlyByFertileMeal ==
    [][/\ \A o \in DOMAIN organisms \cap DOMAIN organisms' :
             (~organisms[o].pregnant /\ organisms'[o].pregnant) =>
                /\ Step("check_for_collisions")
                /\ \E e \in Range(EventsOf(events', o)) :
                      /\ e.kind = "Food"
                      /\ e.after.energy > PREGNANCY_ENERGY_MINIMUM
                      /\ e.before.age > FERTILE_AGE
                      /\ e.rand < PREGNANT_PROBABILITY
       /\ \A o \in DOMAIN organisms' \ DOMAIN organisms : ~organisms'[o].pregnant
       /\ Step("check_for_collisions") =>
             \A e \in Range(events') :
                 (/\ e.kind = "Food"
                  /\ e.after.energy > PREGNANCY_ENERGY_MINIMUM
                  /\ e.before.age > FERTILE_AGE
                  /\ e.rand < PREGNANT_PROBABILITY) => organisms'[e.organism].pregnant]_vars

\* one organism is pregnant after a fertile meal with a lucky draw, and a
\* meal with an unlucky draw has left an organism as it was
C6_Witness ==
    /\ \E e \in Range(events) :
          /\ e.kind = "Food"
          /\ ~e.before.pregnant
          /\ organisms[e.organism].pregnant
    /\ \E e \in Range(events) :
          /\ e.kind = "Food"
          /\ e.after.energy > PREGNANCY_ENERGY_MINIMUM
          /\ e.before.age > FERTILE_AGE
          /\ e.rand >= PREGNANT_PROBABILITY
          /\ ~e.after.pregnant

\* the ages and lifetimes of the organisms, foods and pheromones alive
Lifespans ==
    {<<organisms[o].age, organisms[o].lifetime>> : o \in DOMAIN organisms}
    \cup {<<foods[f].age, foods[f].lifetime>> : f \in DOMAIN foods}
    \cup {<<pheromones[p].age, pheromones[p].lifetime>> : p \in DOMAIN pheromones}

\* every entity a despawn command of system s names is out of the world
\* after this step
Gone(s) ==
    \A c \in Range(commands[s]) :
        c.op = "despawn" =>
           c.entity \notin DOMAIN organisms' \cup DOMAIN foods' \cup DOMAIN pheromones'

\* C7 as stated: every live organism, food and pheromone has age <= lifetime.
C7_AgeAtMostLifetime == \A l \in Lifespans : l[1] <= l[2]

\* what one firing of the age timer does to the entities of map ents, whose
\* next value is ents2: past its lifetime an entity gets a despawn command
\* and keeps its age, otherwise it ages by one
AgedOrQueued(ents, ents2) ==
    \A id \in DOMAIN ents :
        IF ents[id].age > ents[id].lifetime
        THEN /\ Despawn(id) \in Range(commands'["age_progression"])
             /\ ents2[id].age = ents[id].age
        ELSE ents2[id].age = ents[id].age + 1

\* C7 amended: every live organism, food and pheromone has
\* age <= lifetime + 1; an entity whose age exceeds its lifetime when the
\* age timer fires is not aged further but despawned, and is out of the
\* world when that tick ends.
C7_AgeAtMostOnePastLifetime ==
    /\ [](\A l \in Lifespans : l[1] <= l[2] + 1)
    /\ [][/\ (Step("age_progression") /\ Fires(timers.age, AgeTimerDuration)) =>
                /\ AgedOrQueued(organisms, organisms')
                /\ AgedOrQueued(foods, foods')
                /\ AgedOrQueued(pheromones, pheromones')
          /\ BuffersStep => Gone("age_progression")]_vars

\* an organism, a food and a pheromone one past their lifetimes have been
\* queued for despawning by age_progression
C7_Witness ==
    /\ \E o \in DOMAIN organisms :
          /\ organisms[o].age = organisms[o].lifetime + 1
          /\ Despawn(o) \in Range(commands["age_progression"])
    /\ \E f \in DOMAIN foods :
          /\ foods[f].age = foods[f].lifetime + 1
          /\ Despawn(f) \in Range(commands["age_progression"])
    /\ \E p \in DOMAIN pheromones :
          /\ pheromones[p].age = pheromones[p].lifetime + 1
          /\ Despawn(p) \in Range(commands["age_progression"])

\* the wall reflection law: heading d2 follows from heading d on a hit on
\* the given side
ReflectionLaw(d, d2, side) ==
    CASE side = "Left"   -> d2.x = (IF d.x > 0 THEN -d.x ELSE d.x) /\ d2.y = d.y
      [] side = "Right"  -> d2.x = (IF d.x < 0 THEN -d.x ELSE d.x) /\ d2.y = d.y
      [] side = "Top"    -> d2.y = (IF d.y < 0 THEN -d.y ELSE d.y) /\ d2.x = d.x
      [] side = "Bottom" -> d2.y = (IF d.y > 0 THEN -d.y ELSE d.y) /\ d2.x = d.x
      [] side = "Inside" -> d2 = d

\* C10: an organism with a single collision in the collision step, with a
\* wall, has its heading changed by the reflection law of the side hit
\* (Left: x negated iff x > 0; Right: x negated iff x < 0; Top: y negated
\* iff y < 0; Bottom: y negated iff y > 0; Inside: nothing), and its other
\* heading component, energy, position and pregnant flag are unchanged.
C10_WallReflectionLaw ==
    [][Step("check_for_collisions") =>
          \A o \in DOMAIN organisms :
              LET evs == EventsOf(events', o)
              IN (Len(evs) = 1 /\ evs[1].kind = "Wall") =>
                    /\ ReflectionLaw(organisms[o].direction, organisms'[o].direction,
                                     evs[1].collision)
                    /\ organisms'[o].energy = organisms[o].energy
                    /\ organisms'[o].translation = organisms[o].translation
                    /\ organisms'[o].pregnant = organisms[o].pregnant]_vars

\* organism o has had exactly one collision, with a wall, on the given side,
\* and has been turned round or not as told
HitWall(o, side, turned) ==
    LET evs == EventsOf(events, o)
    IN /\ Len(evs) = 1
       /\ evs[1].kind = "Wall"
       /\ evs[1].collision = side
       /\ (evs[1].after.direction # evs[1].before.direction) = turned

\* the collision step has reflected organisms on all four sides and has
\* left alone one that was heading away from the wall it touched
C10_Witness ==
    /\ \A side \in {"Left", "Right", "Top", "Bottom"} :
          \E o \in DOMAIN organisms : HitWall(o, side, TRUE)
    /\ \E o \in DOMAIN organisms, side \in {"Left", "Right", "Top", "Bottom"} :
          HitWall(o, side, FALSE)

\* the genome has its 27 genes, each in [-1, 1]
WellFormed(gene) ==
    /\ DOMAIN gene = GeneIdx
    /\ Cardinality(DOMAIN gene) = 27
    /\ \A i \in DOMAIN gene : -Unit <= gene[i] /\ gene[i] <= Unit

\* C9: every genome has exactly 27 genes, each in [-1, 1]: planned, Default,
\* and every result of mutate on such a genome; and a mutate in which no
\* gene's draw succeeds returns its input.
C9_GenomeWellFormed ==
    /\ [](/\ WellFormed(lab.genome)
          /\ \A o \in DOMAIN organisms : WellFormed(organisms[o].gene))
    /\ [][(lab'.generation = lab.generation + 1 /\ lab'.hits = {})
             => lab'.genome = lab.genome]_vars

\* the genome has been through a mutate that hit and one that did not, and
\* has a gene at a bound that no seed has there
C9_Witness ==
    /\ lab.generation >= 2
    /\ lab.hits = {}
    /\ \E i \in GeneIdx :
          /\ Abs(lab.genome[i]) = Unit
          /\ \A seed \in Seeds : seed[i] # lab.genome[i]

\* positions, energies and genomes of the entities of world w
EntitySet(w) ==
    [organisms |-> {<<w.organisms[o].translation, w.organisms[o].energy,
                      w.organisms[o].gene>> : o \in DOMAIN w.organisms},
     foods |-> {<<w.foods[f].translation, w.foods[f].energy>> : f \in DOMAIN w.foods},
     pheromones |-> {w.pheromones[p].translation : p \in DOMAIN w.pheromones}]

\* C8: two runs from the same entities, with the same configuration and the
\* same random draws, have the same entities (positions, energies, genomes)
\* after the same number of ticks, whichever order the systems ran in.
C8_TwinsAgree == EntitySet(W) = EntitySet(twin)

\* C11: when a tick in which grow_organism ran has ended and its spawns are
\* applied, every organism in the world, a child born in that tick
\* included, has size ORGANISM_SIZE * sqrt(clamp(energy, 0.2, 4.0)) for its
\* current energy.
C11_SizeFollowsEnergy ==
    [][(BuffersStep /\ "grow_organism" \in done) =>
          \A o \in DOMAIN organisms' :
              organisms'[o].scale =
                  OrganismScale(Clamp(organisms'[o].energy,
                                      ORGANISM_MIN_ENERGY, ORGANISM_MAX_ENERGY))]_vars

\* C12: the heading of every organism has length 1 in every reachable
\* state (to the precision of the thousandths the model keeps).
C12_HeadingUnitLength ==
    \A o \in DOMAIN organisms :
        Abs(Length(organisms[o].direction) - Unit) <= Unit \div 200

\* positions in the inputs array of adjust_direction: the age fraction, the
\* food sensor of the cone ahead (foods[1]) and of the two side cones
AgeInput == 4
AheadInput == 6
SideInputs == {5, 7}

\* adjust_direction runs in this step and the sensory timer fires
SensoryTick == Step("adjust_direction") /\ Fires(timers.sensory, SensoryTimerDuration)

\* the organism is within 10% of an arena edge and heading further outward
HeadingOutNearEdge(org) ==
    LET x_frac == Inputs(org, foods)[1]
        y_frac == Inputs(org, foods)[2]
    IN \/ x_frac < Unit \div 10 /\ org.direction.x < 0
       \/ x_frac > 9 * (Unit \div 10) /\ org.direction.x > 0
       \/ y_frac < Unit \div 10 /\ org.direction.y < 0
       \/ y_frac > 9 * (Unit \div 10) /\ org.direction.y > 0

\* C13: on every sensory tick, for an organism within 10% of an arena edge
\* and heading further outward, the ahead food-sensor value handed to
\* process is strictly less than 0.
C13_BorderSentinelNegative ==
    [][SensoryTick =>
          \A o \in DOMAIN organisms :
              HeadingOutNearEdge(organisms[o]) =>
                 Inputs(organisms[o], foods)[AheadInput] < 0]_vars

\* C14: on every sensory tick, the fifth input handed to process is the
\* organism's age divided by its lifetime.
C14_AgeFractionInput ==
    [][SensoryTick =>
          \A o \in DOMAIN organisms :
              Inputs(organisms[o], foods)[AgeInput] =
                  RoundDiv(organisms[o].age * Unit, organisms[o].lifetime)]_vars

\* C15: a failure of log_things to create or write organisms.txt does not
\* stop the simulation: no state is reached in which a system has panicked
\* and the schedule runs no more.
C15_LoggingFailureHarmless == ~crashed

\* position, heading, speed, energy, age, pregnant flag and genome of the
\* organisms of world w, in the order of their creation
OrganismList(w) ==
    LET ids == SortedSeq(DOMAIN w.organisms)
    IN [k \in 1 .. Len(ids) |->
           [translation |-> w.organisms[ids[k]].translation,
            direction |-> w.organisms[ids[k]].direction,
            speed |-> w.organisms[ids[k]].speed,
            energy |-> w.organisms[ids[k]].energy,
            age |-> w.organisms[ids[k]].age,
            pregnant |-> w.organisms[ids[k]].pregnant,
            gene |-> w.organisms[ids[k]].gene]]

\* C16: two runs that start from the same organisms, food and walls and get
\* the same random draws, but differ in their pheromones, have organisms
\* with the same position, heading, speed, energy, age, pregnant flag and
\* genome after every tick.
C16_PheromonesWithoutInfluence == OrganismList(W) = OrganismList(twin)

\* where the pheromones of world w lie, and how old they are
Scent(w) ==
    {<<w.pheromones[p].translation, w.pheromones[p].age>> : p \in DOMAIN w.pheromones}

\* after a tick the two runs still differ in their pheromones, one of which
\* lies under an organism of its run, and the organisms have moved and eaten
C16_Witness ==
    /\ tick >= 1
    /\ Scent(W) # Scent(twin)
    /\ \E p \in DOMAIN twin.pheromones, o \in DOMAIN twin.organisms :
          /\ collide(twin.organisms[o].translation, twin.organisms[o].scale,
                     twin.pheromones[p].translation,
                     Vec(PHEROMONE_SIZE, PHEROMONE_SIZE)) # "None"
          /\ twin.pheromones[p].translation \notin {s[1] : s \in Scent(W)}
    /\ \E o \in DOMAIN organisms : organisms[o].energy > 2 * Unit

\* a timer slower than the fixed step fires in this step
SlowTick ==
    \/ Step("generate_food") /\ Fires(timers.food, FoodTimerDuration)
    \/ Step("adjust_direction") /\ Fires(timers.sensory, SensoryTimerDuration)
    \/ Step("age_progression") /\ Fires(timers.age, AgeTimerDuration)
    \/ Step("log_things") /\ Fires(timers.log, LogTimerDuration)

\* the energy organism o loses in this step
Loss(o) == organisms[o].energy - organisms'[o].energy

\* C17: energy is taken from organisms on the firing of a periodic timer
\* slower than the fixed step, and then every organism loses the same fixed
\* amount, whatever its speed and energy: outside grow_organism, a step in
\* which an organism loses energy is such a firing with equal losses.
C17_UniformMetabolism ==
    [][\A o \in DOMAIN organisms \cap DOMAIN organisms' :
          (Loss(o) > 0 /\ ~Step("grow_organism")) =>
             /\ SlowTick
             /\ \A q \in DOMAIN organisms \cap DOMAIN organisms' : Loss(q) = Loss(o)]_vars

\* the inputs array with 1.0 at position k and 0 elsewhere, and all 0
OneHot(k) == [i \in 0 .. 7 |-> IF i = k THEN Unit ELSE 0]
NoInput == [i \in 0 .. 7 |-> 0]

\* the weight of input k on output j in the decode of gene by process, and
\* the bias of output j
Weight(gene, j, k) == process(gene, OneHot(k))[j] - process(gene, NoInput)[j]
Bias(gene, j) == process(gene, NoInput)[j]

\* C18: decoded by process, the seed genome planned turns on the two side
\* food sensors only, with opposite signs and nothing on the ahead sensor,
\* slows down on the two side sensors and speeds up on the ahead sensor;
\* every other weight and every bias is 0.
C18_SeedHeuristic ==
    (lab.generation = 0 /\ lab.genome = planned) =>
       /\ \A k \in 0 .. 7 : (Weight(lab.genome, 0, k) # 0) <=> (k \in SideInputs)
       /\ \E a, b \in SideInputs :
             Weight(lab.genome, 0, a) > 0 /\ Weight(lab.genome, 0, b) < 0
       /\ Weight(lab.genome, 0, AheadInput) = 0
       /\ \A k \in SideInputs : Weight(lab.genome, 1, k) < 0
       /\ Weight(lab.genome, 1, AheadInput) > 0
       /\ \A k \in (0 .. 7) \ (SideInputs \cup {AheadInput}) :
             Weight(lab.genome, 1, k) = 0
       /\ \A k \in 0 .. 7 : Weight(lab.genome, 2, k) = 0
       /\ \A j \in 0 .. 2 : Bias(lab.genome, j) = 0

\* C19: the speed of every organism is within [0, ORGANISM_DEFAULT_SPEED]
\* in every reachable state; an organism is created with speed 8.0, and its
\* speed changes only on a sensory tick, to its old speed plus output[1]
\* clamped to that range.
C19_SpeedWithinRange ==
    /\ [](\A o \in DOMAIN organisms :
             0 <= organisms[o].speed /\ organisms[o].speed <= ORGANISM_DEFAULT_SPEED)
    /\ [][/\ \A o \in DOMAIN organisms' \ DOMAIN organisms :
                organisms'[o].speed = ORGANISM_DEFAULT_SPEED
          /\ \A o \in DOMAIN organisms \cap DOMAIN organisms' :
                organisms'[o].speed # organisms[o].speed =>
                   /\ SensoryTick
                   /\ organisms'[o].speed =
                         Clamp(organisms[o].speed
                                  + process(organisms[o].gene,
                                            Inputs(organisms[o], foods))[1],
                               0, ORGANISM_DEFAULT_SPEED)]_vars

\* a sensory tick has slowed an organism down, and children have been born
C19_Witness ==
    /\ \E o \in DOMAIN organisms :
          organisms[o].speed > 0 /\ organisms[o].speed < ORGANISM_DEFAULT_SPEED
    /\ \E o \in DOMAIN organisms : organisms[o].age = 1 /\ organisms[o].energy = Unit \div 2

\* the organisms that a Food event of this step's check_for_collisions
\* credits for food f
Eaters(f) ==
    {events'[k].organism : k \in {j \in 1 .. Len(events') :
                                     events'[j].kind = "Food" /\ events'[j].collider = f}}

\* C20: a food entity credits energy to at most one organism: of several
\* organisms that overlap it in the same tick only one gains energy from
\* it, and each organism is credited for it at most once.
C20_FoodEatenOnce ==
    [][Step("check_for_collisions") =>
          \A f \in DOMAIN foods :
              /\ Cardinality(Eaters(f)) <= 1
              /\ Cardinality({j \in 1 .. Len(events') :
                                 events'[j].kind = "Food" /\ events'[j].collider = f}) <= 1]_vars

\* every entity with an age and a lifetime, by id
Entities(w) ==
    [id \in DOMAIN w.organisms \cup DOMAIN w.foods \cup DOMAIN w.pheromones |->
        IF id \in DOMAIN w.organisms THEN w.organisms[id]
        ELSE IF id \in DOMAIN w.foods THEN w.foods[id]
        ELSE w.pheromones[id]]

Present(id) == id \in DOMAIN Entities(W)

\* the age timer fires in the tick that starts now
AgeFires == Fires(timers.age, AgeTimerDuration)

RECURSIVE FiringsIn(_, _)
\* firings of the age timer in the next n ticks, from the elapsed time given
FiringsIn(elapsed, n) ==
    IF n <= 0 THEN 0
    ELSE LET t == TimerTick(elapsed, AgeTimerDuration, delta)
         IN (IF t.just_finished THEN 1 ELSE 0) + FiringsIn(t.elapsed, n - 1)

\* firings of the age timer the run still has in it
FiringsLeft == FiringsIn(timers.age, LiveTicks - tick)

\* firings of the age timer that entity e can still be there for, the one
\* that queues its despawn included
FiringsToLive(e) == IF Expired(e.age, e.lifetime) THEN 1 ELSE e.lifetime + 2 - e.age

\* the most organisms and the most entities a scenario starts with
MostOrganisms ==
    CHOOSE n \in {Len(sc.organisms) : sc \in Scenarios} :
        \A sc \in Scenarios : Len(sc.organisms) <= n
MostEntities ==
    CHOOSE n \in {Len(sc.organisms) + Len(sc.foods) + Len(sc.pheromones) : sc \in Scenarios} :
        \A sc \in Scenarios : Len(sc.organisms) + Len(sc.foods) + Len(sc.pheromones) <= n

\* the ids a run of LiveTicks ticks can give out: no organism born in the
\* run grows old enough to bear, so the organisms are at most the first ones
\* and a litter of each; a tick spawns at most FOOD_PER_TIMESTEP foods and a
\* pheromone per organism
LiveIds ==
    LET most == MostOrganisms * (1 + CHILDREN_PER_PREGNANCY)
    IN 1 .. (MostEntities + most + LiveTicks * (FOOD_PER_TIMESTEP + most))

\* C21: provided the age timer keeps firing, every organism, food and
\* pheromone is removed in the end.  Entities are created with age 1; a
\* firing of the age timer ages every entity by one, or removes it in that
\* tick if its age is already above its lifetime; no age is ever more than
\* one above the lifetime.  So an entity of lifetime L is there for at most
\* L firings after its creation and is gone with the (L+1)-th, and every
\* entity for which the run still has that many firings is removed, unless
\* the application ends first.
C21_AgedEntitiesRemoved ==
    /\ [](/\ nextId - 1 \in LiveIds \cup {0}
          /\ \A id \in DOMAIN Entities(W) :
                Entities(W)[id].age <= Entities(W)[id].lifetime + 1)
    /\ [][BuffersStep =>
             /\ \A id \in DOMAIN Entities(W)' \ DOMAIN Entities(W) :
                   Entities(W)'[id].age = 1
             /\ AgeFires =>
                   \A id \in DOMAIN Entities(W) :
                       IF Entities(W)[id].age > Entities(W)[id].lifetime
                       THEN id \notin DOMAIN Entities(W)'
                       ELSE id \in DOMAIN Entities(W)' =>
                               Entities(W)'[id].age = Entities(W)[id].age + 1]_vars
    /\ \A id \in LiveIds :
          (Present(id) /\ FiringsLeft >= FiringsToLive(Entities(W)[id]))
              ~> (~Present(id) \/ crashed)

\* pheromones are there after more firings of the age timer than a pheromone
\* lives, none of them older than a pheromone can get: the pheromones of the
\* first ticks have lived their whole lives and are gone
C21_Witness ==
    /\ ~crashed
    /\ delta >= AgeTimerDuration
    /\ tick >= PHEROMONE_DEFAULT_LIFETIME + 2
    /\ DOMAIN pheromones # {}
    /\ \A p \in DOMAIN pheromones : pheromones[p].age <= PHEROMONE_DEFAULT_LIFETIME + 1
    /\ Cardinality(DOMAIN Entities(W)) < nextId - 1

\* organism o eats in this step: a Food event of it is among the events sent
Eats(o) ==
    \E k \in 1 .. Len(events') : events'[k].kind = "Food" /\ events'[k].organism = o

\* C22: the energy of an organism goes up only when it collides with food.
\* Moving lowers it; growing leaves it alone, or lowers a pregnant parent's
\* to 1.0; aging, sensing and steering, hitting a wall and every other
\* operation leave it as it was.
C22_EnergyRisesOnlyByEating ==
    [][\A o \in DOMAIN organisms \cap DOMAIN organisms' :
          LET before == organisms[o].energy
              after == organisms'[o].energy
          IN /\ after > before => Step("check_for_collisions") /\ Eats(o)
             /\ Step("check_for_collisions") /\ ~Eats(o) => after = before
             /\ Step("apply_direction") => after < before
             /\ Step("grow_organism") =>
                   \/ after = before
                   \/ organisms[o].pregnant /\ after = Unit /\ after < before
             /\ ~(\/ Step("check_for_collisions")
                  \/ Step("apply_direction")
                  \/ Step("grow_organism")) => after = before]_vars

\* an organism has eaten, become pregnant and been reset by grow_organism,
\* and has moved, in this tick: it has less energy than before its meal; and
\* an organism has hit a wall
C22_Witness ==
    /\ {"grow_organism", "apply_direction"} \subseteq done
    /\ \E k \in 1 .. Len(events) :
          /\ events[k].kind = "Food"
          /\ events[k].after.pregnant
          /\ events[k].organism \in DOMAIN organisms
          /\ ~organisms[events[k].organism].pregnant
          /\ organisms[events[k].organism].energy < events[k].before.energy
    /\ \E k \in 1 .. Len(events) : events[k].kind = "Wall"

====
